---- MODULE Spec2Model ----
(***************************************************************************)
(* Model of the timetable engine: in main.py, load_curriculum,             *)
(* assign_home_rooms, the constraint model built by ORTimetableSolver, the *)
(* CP-SAT search seen as a choice among the valuations that satisfy that   *)
(* model, and run(); in cache.py, the backtracking TimetableSolver; in     *)
(* app.py, the Generator and Schedules pages with the cached rendering.    *)
(*                                                                         *)
(* Identifiers that the code sorts (class ids, room ids, room names) are   *)
(* sequences of one-character strings, compared as Python compares str.    *)
(***************************************************************************)
EXTENDS Integers, Sequences, FiniteSets, TLC

VARIABLES
    pc,               \* position in run() / in the caller of assign_home_rooms
    classes,          \* class_id -> [size]                      (load_classes)
    rooms,            \* room_id  -> [name, capacity, type]      (load_rooms)
    teachers,         \* teacher_id -> [seniority, max_load_day, max_load_week]
    unavailability,   \* teacher_id -> set of timeslots
    curriculum,       \* curriculum.csv: whether it exists, its columns, its rows
    sessions,         \* list of Session records
    home_room_map,    \* {} while unbound, {m} once bound to the map m
    timeslots,        \* sorted list of Timeslot                (load_timeslots)
    solver_status,    \* status returned by CpSolver.Solve, "NotRun" before
    solve_result,     \* (success, solution) returned by ORTimetableSolver.solve
    run_result,       \* dict returned by run()
    output_written,   \* files written under output/ by this run
    solver,           \* cache.py: the TimetableSolver object, the locals of its
                      \* solve(), the frames of backtrack() and the clock
    ui                \* app.py: the page shown, the files under output/, the
                      \* cache of get_asc_styled_html and the timetable on view

vars == <<pc, classes, rooms, teachers, unavailability, curriculum, sessions,
          home_room_map, timeslots, solver_status, solve_result, run_result,
          output_written, solver, ui>>

----------------------------------------------------------------------------
(* Bounds of the model *)

MaxSessions == 2
MaxPPW == 2
MaxClasses == 5
MaxRooms == 4
MaxRows == 2
MaxSolverSessions == 3
MaxTimetables == 3

----------------------------------------------------------------------------
(* Strings as sequences of characters *)


\* code point of the characters used in identifiers (ASCII order)
Ord(c) ==
    CASE c = "-" -> 45
      [] c = "1" -> 49
      [] c = "2" -> 50
      [] c = "A" -> 65
      [] c = "B" -> 66
      [] c = "C" -> 67
      [] c = "L" -> 76
      [] c = "R" -> 82
      [] c = "X" -> 88
      [] c = "r" -> 114

\* [a-zA-Z0-9]
IsAlnum(c) == c # "-"

RECURSIVE StrLessFrom(_, _, _)
StrLessFrom(a, b, k) ==
    IF k > Len(b) THEN FALSE
    ELSE IF k > Len(a) THEN TRUE
    ELSE IF Ord(a[k]) # Ord(b[k]) THEN Ord(a[k]) < Ord(b[k])
    ELSE StrLessFrom(a, b, k + 1)

\* a < b on Python str
StrLess(a, b) == StrLessFrom(a, b, 1)

\* sorted(S) for a set of strings
RECURSIVE SortedStrs(_)
SortedStrs(S) ==
    IF S = {} THEN <<>>
    ELSE LET m == CHOOSE x \in S : \A y \in S \ {x} : StrLess(x, y)
         IN  <<m>> \o SortedStrs(S \ {m})

Range(f) == {f[x] : x \in DOMAIN f}

RECURSIVE Sum(_, _)
\* sum of f[x] over the finite set S
Sum(f, S) ==
    IF S = {} THEN 0
    ELSE LET x == CHOOSE y \in S : TRUE IN f[x] + Sum(f, S \ {x})


----------------------------------------------------------------------------
(* assign_home_rooms *)

\* the room groups: theory rooms grouped by name, groups sorted by name,
\* each group sorted by room id
TheoryRoomNames(rs) == {rs[r].name : r \in {x \in DOMAIN rs : rs[x].type = "Theory"}}

sorted_room_groups(rs) ==
    LET names == SortedStrs(TheoryRoomNames(rs))
    IN  [i \in 1..Len(names) |->
            SortedStrs({r \in DOMAIN rs : rs[r].type = "Theory" /\ rs[r].name = names[i]})]

\* re.split(r'([^a-zA-Z0-9])', class_id) gives seg0, sep1, seg1, ..., sepn, segn.
\* With a separator (len(parts) > 2) the base is everything before the last
\* separator; without one it is class_id[:-1].
base_name(class_id) ==
    LET seps == {k \in 1..Len(class_id) : ~IsAlnum(class_id[k])}
    IN  IF seps # {}
        THEN LET last == CHOOSE k \in seps : \A j \in seps : j <= k
             IN  SubSeq(class_id, 1, last - 1)
        ELSE SubSeq(class_id, 1, Len(class_id) - 1)

sorted_class_groups(cs) ==
    LET bases == SortedStrs({base_name(c) : c \in cs})
    IN  [i \in 1..Len(bases) |-> SortedStrs({c \in cs : base_name(c) = bases[i]})]

\* zip(class_group, room_group) added to home_room_map
ZipInto(m, class_group, room_group) ==
    LET n == IF Len(class_group) < Len(room_group) THEN Len(class_group) ELSE Len(room_group)
        new == {class_group[k] : k \in 1..n}
    IN  [c \in DOMAIN m \cup new |->
            IF c \in new
            THEN room_group[CHOOSE k \in 1..n : class_group[k] = c]
            ELSE m[c]]

\* a call ends with a returned value, value = {m}, or with a raise that leaves
\* the caller without any value, value = {}
Returned(m) == [raised |-> FALSE, value |-> {m}]

Raised == [raised |-> TRUE, value |-> {}]

\* the mutated loop: a group whose size differs is skipped instead of raising
RECURSIVE HomeRoomLoopSkip(_, _, _, _)
HomeRoomLoopSkip(cgs, rgs, i, m) ==
    IF i > Len(cgs) THEN Returned(m)
    ELSE IF Len(cgs[i]) # Len(rgs[i]) THEN HomeRoomLoopSkip(cgs, rgs, i + 1, m)
    ELSE HomeRoomLoopSkip(cgs, rgs, i + 1, ZipInto(m, cgs[i], rgs[i]))

\* the mutated loop: rooms are paired from the end of the room group
RECURSIVE HomeRoomLoopRev(_, _, _, _)
HomeRoomLoopRev(cgs, rgs, i, m) ==
    IF i > Len(cgs) THEN Returned(m)
    ELSE IF Len(cgs[i]) # Len(rgs[i]) THEN Raised
    ELSE HomeRoomLoopRev(cgs, rgs, i + 1,
             ZipInto(m, cgs[i], [k \in 1..Len(rgs[i]) |-> rgs[i][Len(rgs[i]) + 1 - k]]))

\* for i, class_group in enumerate(sorted_class_groups): ...
RECURSIVE HomeRoomLoop(_, _, _, _)
HomeRoomLoop(cgs, rgs, i, m) ==
    IF i > Len(cgs) THEN Returned(m)
    ELSE IF Len(cgs[i]) # Len(rgs[i]) THEN Raised
    ELSE HomeRoomLoop(cgs, rgs, i + 1, ZipInto(m, cgs[i], rgs[i]))

assign_home_rooms(cs, rs) ==
    LET cgs == sorted_class_groups(cs)
        rgs == sorted_room_groups(rs)
    IN  IF Len(cgs) > Len(rgs) THEN Raised
        ELSE HomeRoomLoop(cgs, rgs, 1, <<>>)

----------------------------------------------------------------------------
(* Entity tables *)

c11A == <<"1", "1", "A">>
c11B == <<"1", "1", "B">>
c11C == <<"1", "1", "C">>
c12A == <<"1", "2", "A">>
c12B == <<"1", "2", "B">>
c12A1 == <<"1", "2", "A", "1">>
c1_1_A == <<"1", "-", "1", "-", "A">>
c1_1_B == <<"1", "-", "1", "-", "B">>

R1 == <<"R", "1">>
R2 == <<"R", "2">>
R3 == <<"R", "1", "1">>
R4 == <<"R", "1", "2">>
R5 == <<"R", "2", "1">>
LB1 == <<"L", "B", "1">>

name_r1 == <<"r", "1">>
name_r2 == <<"r", "2">>
name_lab == <<"L", "A", "B">>

Timeslot(d, p) == [day |-> d, period |-> p]

\* sorted(timeslots): by day, then by period
TimeslotLess(a, b) == a.day < b.day \/ (a.day = b.day /\ a.period < b.period)

RECURSIVE SortedTimeslots(_)
SortedTimeslots(S) ==
    IF S = {} THEN <<>>
    ELSE LET m == CHOOSE x \in S : \A y \in S \ {x} : TimeslotLess(x, y)
         IN  <<m>> \o SortedTimeslots(S \ {m})

\* subjects.csv as load_subjects returns it. The timeslot grid and each
\* viable_rooms list hold no entry twice.
subjects ==
    [s \in {"TH1", "TH2", "LAB1", "LAB2", "LAB3", "TH3", "LAB4", "HUM101", "HUM103"} |->
        CASE s = "TH1" -> [duration |-> 1, required_room_type |-> "", viable_rooms |-> {},
                           is_optional |-> FALSE]
          [] s = "TH2" -> [duration |-> 1, required_room_type |-> "", viable_rooms |-> {},
                           is_optional |-> FALSE]
          [] s = "LAB1" -> [duration |-> 2, required_room_type |-> "Lab",
                            viable_rooms |-> {LB1}, is_optional |-> FALSE]
          [] s = "LAB2" -> [duration |-> 2, required_room_type |-> "Lab",
                            viable_rooms |-> {}, is_optional |-> FALSE]
          [] s = "LAB3" -> [duration |-> 2, required_room_type |-> "Lab",
                            viable_rooms |-> {R1}, is_optional |-> FALSE]
          [] s = "TH3" -> [duration |-> 2, required_room_type |-> "", viable_rooms |-> {},
                           is_optional |-> FALSE]
          [] s = "LAB4" -> [duration |-> 3, required_room_type |-> "Lab",
                            viable_rooms |-> {LB1}, is_optional |-> FALSE]
          [] s = "HUM101" -> [duration |-> 1, required_room_type |-> "",
                              viable_rooms |-> {}, is_optional |-> FALSE]
          [] s = "HUM103" -> [duration |-> 1, required_room_type |-> "",
                              viable_rooms |-> {}, is_optional |-> TRUE]]

\* teacher_preferences.csv
teacher_preferences == [t \in {"T1"} |-> {Timeslot(1, 1)}]

----------------------------------------------------------------------------
(* load_curriculum *)
(* A cell of the file is {} when empty (NaN) and {x} when it holds x; a     *)
(* session's room_id is {} for None and {r} for the fixed room r.           *)

required_cols == {"class_id", "subject_id", "teacher_id", "periods_per_week"}

all_possible_cols == required_cols \cup {"room_id"}

Cell(c) == CHOOSE x \in c : TRUE

\* str.strip()
strip(str) ==
    LET solid == {k \in 1..Len(str) : str[k] # " "}
    IN  IF solid = {} THEN <<>>
        ELSE SubSeq(str, CHOOSE a \in solid : \A k \in solid : a <= k,
                         CHOOSE b \in solid : \A k \in solid : k <= b)

\* df.dropna(subset=required_cols)
dropna(rows) == SelectSeq(rows, LAMBDA row : \A c \in required_cols : row[c] # {})

\* fixed_room: None unless the column exists and the cell holds a non-blank id
fixed_room(columns, row) ==
    IF "room_id" \in columns /\ row.room_id # {} /\ strip(Cell(row.room_id)) # <<>>
    THEN {strip(Cell(row.room_id))}
    ELSE {}

\* the sessions of one row: for k in range(num_sessions), idx counting on
RowSessions(columns, row, idx) ==
    [k \in 1..Cell(row.periods_per_week) |->
        [session_id |-> <<"S", idx + k>>, class_id |-> Cell(row.class_id),
         subject_id |-> Cell(row.subject_id), teacher_id |-> Cell(row.teacher_id),
         room_id |-> fixed_room(columns, row)]]

\* the mutated loop: idx starts again at every row
RECURSIVE ExpandRowsRestart(_, _, _, _)
ExpandRowsRestart(columns, rows, k, idx) ==
    IF k > Len(rows) THEN <<>>
    ELSE RowSessions(columns, rows[k], 0) \o ExpandRowsRestart(columns, rows, k + 1, 0)

RECURSIVE ExpandRows(_, _, _, _)
ExpandRows(columns, rows, k, idx) ==
    IF k > Len(rows) THEN <<>>
    ELSE RowSessions(columns, rows[k], idx)
         \o ExpandRows(columns, rows, k + 1, idx + Cell(rows[k].periods_per_week))

\* the mutated loader: a row with an empty required cell is an error
load_curriculumStrict(file) ==
    IF ~file.exists THEN Returned(<<>>)
    ELSE IF ~(required_cols \subseteq file.columns) THEN Raised
    ELSE IF dropna(file.rows) # file.rows THEN Raised
    ELSE Returned(ExpandRows(file.columns, dropna(file.rows), 1, 0))

\* a missing file gives no session; dropna raises KeyError when a required
\* column is not in the file
load_curriculum(file) ==
    IF ~file.exists THEN Returned(<<>>)
    ELSE IF ~(required_cols \subseteq file.columns) THEN Raised
    ELSE Returned(ExpandRows(file.columns, dropna(file.rows), 1, 0))

----------------------------------------------------------------------------
(* ORTimetableSolver: the decision variables and the constraints.           *)
(* A valuation v gives each session index the key (t, r_id) of its          *)
(* assignment variable that is true, or NoKey when none is: the model never *)
(* lets two assignment variables of one session be true together, and the   *)
(* solution dict keeps one entry per session id in any case.                *)

NoKey == [chosen |-> FALSE]

Key(t, r) == [chosen |-> TRUE, t |-> t, r_id |-> r]

SessionIdx == 1..Len(sessions)

TimeslotSet == Range(timeslots)

HomeRoomMap == CHOOSE m \in home_room_map : TRUE

duration(i) == subjects[sessions[i].subject_id].duration

\* _create_decision_variables: the rooms a session may be given
possible_rooms(i) ==
    LET s == sessions[i]
        subject == subjects[s.subject_id]
        is_lab == subject.required_room_type = "Lab" /\ subject.viable_rooms # {}
    IN  IF is_lab
        THEN {r \in subject.viable_rooms :
                 r \in DOMAIN rooms /\ classes[s.class_id].size <= rooms[r].capacity}
        ELSE IF s.class_id \in DOMAIN HomeRoomMap THEN {HomeRoomMap[s.class_id]} ELSE {}

\* the keys (t, r_id) of the assignment variables of session i
assignment(i) == {Key(t, r) : t \in TimeslotSet, r \in possible_rooms(i)}

\* (s.session_id, t, r_id) in assignment
HasVar(i, t, r) == t \in TimeslotSet /\ r \in possible_rooms(i)

\* session_starts_at[(s, t)]: tied to the sum of the assignment variables at t
starts(v, i, t) == v[i].chosen /\ v[i].t = t

\* the mutated constraint: AddAtMostOne, which every valuation meets
AtMostOne(v) == \A i \in SessionIdx : v[i].chosen \/ v[i] = NoKey

\* the mutated constraint: a session without any variable is passed over
ExactlyOneWhereVars(v) == \A i \in SessionIdx : possible_rooms(i) # {} => v[i].chosen

\* AddExactlyOne(possible_assignments_for_session[s])
ExactlyOne(v) == \A i \in SessionIdx : v[i].chosen

\* for s in S: for i in range(duration)
Offsets(S) == UNION {{<<i, k>> : k \in 0..(duration(i) - 1)} : i \in S}

\* the (session, offset) pairs active at t among the sessions in S
ActiveAt(v, S, t) ==
    {<<i, k>> \in Offsets(S) :
        /\ starts(v, i, Timeslot(t.day, t.period - k))
        /\ Timeslot(t.day, t.period - k) \in TimeslotSet}

\* for t, for teacher_id in self.teachers: sum(active_sessions) <= 1
TeacherConflicts(v) ==
    \A t \in TimeslotSet : \A teacher_id \in DOMAIN teachers :
        Cardinality(ActiveAt(v, {i \in SessionIdx : sessions[i].teacher_id = teacher_id}, t)) <= 1

\* the mutated constraint: only sessions starting at t count as active
ClassConflictsStartOnly(v) ==
    \A t \in TimeslotSet : \A class_id \in DOMAIN classes :
        Cardinality({i \in SessionIdx :
            sessions[i].class_id = class_id /\ starts(v, i, t)}) <= 1

\* for t, for class_id in self.classes: sum(active_sessions) <= 1
ClassConflicts(v) ==
    \A t \in TimeslotSet : \A class_id \in DOMAIN classes :
        Cardinality(ActiveAt(v, {i \in SessionIdx : sessions[i].class_id = class_id}, t)) <= 1

\* the mutated constraint: the viable-room test is inverted
RoomConflictsInverted(v) ==
    \A t \in TimeslotSet : \A r_id \in DOMAIN rooms :
        Cardinality({<<i, k>> \in Offsets(SessionIdx) :
            /\ r_id \notin subjects[sessions[i].subject_id].viable_rooms
            /\ v[i] = Key(Timeslot(t.day, t.period - k), r_id)
            /\ HasVar(i, Timeslot(t.day, t.period - k), r_id)}) <= 1

\* for t, for r_id in self.rooms: the sessions whose subject lists r_id as
\* viable and that have a variable for (start_t, r_id)
RoomConflicts(v) ==
    \A t \in TimeslotSet : \A r_id \in DOMAIN rooms :
        Cardinality({<<i, k>> \in Offsets(SessionIdx) :
            /\ r_id \in subjects[sessions[i].subject_id].viable_rooms
            /\ v[i] = Key(Timeslot(t.day, t.period - k), r_id)
            /\ HasVar(i, Timeslot(t.day, t.period - k), r_id)}) <= 1

\* sum of starts * duration over the sessions of a teacher starting in slots T
LoadIn(v, teacher_id, T) ==
    LET S == {i \in SessionIdx :
                 sessions[i].teacher_id = teacher_id /\ \E t \in T : starts(v, i, t)}
    IN  Sum([i \in S |-> duration(i)], S)

\* the mutated constraint: the load counts sessions, not periods
TeacherLoadsCount(v) ==
    \A teacher_id \in DOMAIN teachers :
        /\ Cardinality({i \in SessionIdx : sessions[i].teacher_id = teacher_id /\ v[i].chosen})
               <= teachers[teacher_id].max_load_week
        /\ \A d \in {t.day : t \in TimeslotSet} :
               Cardinality({i \in SessionIdx :
                   sessions[i].teacher_id = teacher_id /\ v[i].chosen /\ v[i].t.day = d})
               <= teachers[teacher_id].max_load_day

\* the mutated constraint: the weekly cap is left out
TeacherLoadsDailyOnly(v) ==
    \A teacher_id \in DOMAIN teachers :
        \A d \in {t.day : t \in TimeslotSet} :
            LoadIn(v, teacher_id, {t \in TimeslotSet : t.day = d})
            <= teachers[teacher_id].max_load_day

\* teacher weekly and daily load constraints
TeacherLoads(v) ==
    \A teacher_id \in DOMAIN teachers :
        /\ LoadIn(v, teacher_id, TimeslotSet) <= teachers[teacher_id].max_load_week
        /\ \A d \in {t.day : t \in TimeslotSet} :
               LoadIn(v, teacher_id, {t \in TimeslotSet : t.day = d})
               <= teachers[teacher_id].max_load_day

\* self.unavailability.get(s.teacher_id, set())
UnavailableOf(teacher_id) ==
    IF teacher_id \in DOMAIN unavailability THEN unavailability[teacher_id] ELSE {}

\* the mutated constraint: the slot before an unavailable one is forbidden
TeacherUnavailabilityShifted(v) ==
    \A i \in SessionIdx : \A t \in TimeslotSet :
        (sessions[i].teacher_id \in DOMAIN unavailability
            /\ Timeslot(t.day, t.period + 1) \in unavailability[sessions[i].teacher_id])
                => ~starts(v, i, t)

\* teacher unavailability: the start variable is forced to 0
TeacherUnavailability(v) ==
    \A i \in SessionIdx : \A t \in TimeslotSet :
        t \in UnavailableOf(sessions[i].teacher_id) => ~starts(v, i, t)

\* _add_core_constraints
CoreConstraints(v) ==
    /\ ExactlyOne(v)
    /\ TeacherConflicts(v)
    /\ ClassConflicts(v)
    /\ RoomConflicts(v)
    /\ TeacherLoads(v)
    /\ TeacherUnavailability(v)

\* max(ts.period for ts in self.timeslots if ts.day == day)
max_period_for_day(day) ==
    LET P == {t.period : t \in {x \in TimeslotSet : x.day = day}}
    IN  CHOOSE p \in P : \A q \in P : q <= p

\* the mutated constraint: a multi-period session may start at any slot
NoLateStartLeftOut(v) == \A i \in SessionIdx : duration(i) > 1 => v[i] \in Range(v)

\* a multi-period session starts neither too late to finish in its day nor at
\* an index whose end index lies in another day
NoLateStart(v) ==
    \A i \in SessionIdx : duration(i) > 1 =>
        \A k \in 1..Len(timeslots) :
            /\ timeslots[k].period > max_period_for_day(timeslots[k].day) - duration(i) + 1
                   => ~starts(v, i, timeslots[k])
            /\ (/\ k + duration(i) - 1 <= Len(timeslots)
                /\ timeslots[k].day # timeslots[k + duration(i) - 1].day)
                   => ~starts(v, i, timeslots[k])

optional_course_subjects == {"HUM101", "HUM103"}

main_classes == {<<"1", "2", "A">>, <<"1", "2", "B">>, <<"1", "2", "C">>}

optional_classes == {<<"1", "2", "A", "1">>, <<"1", "2", "A", "2">>,
                     <<"1", "2", "B", "1">>, <<"1", "2", "B", "2">>}

\* the mutated constraint: is_optional_slot is not tied to the optional
\* sessions when it is false
OptionalBlocksUntied(v) ==
    LET opt == {i \in SessionIdx : sessions[i].class_id \in optional_classes}
    IN  \A t \in TimeslotSet :
            opt # {} =>
                \E is_optional_slot \in BOOLEAN :
                    /\ is_optional_slot => (\E i \in opt : starts(v, i, t))
                    /\ \A i \in SessionIdx :
                           (/\ sessions[i].class_id \in main_classes
                            /\ sessions[i].subject_id \notin optional_course_subjects)
                               => (is_optional_slot => ~starts(v, i, t))

\* is_optional_slot is a free boolean of the model, tied to the optional
\* sessions starting at t when there is any optional-class session
OptionalBlocks(v) ==
    LET opt == {i \in SessionIdx : sessions[i].class_id \in optional_classes}
    IN  \A t \in TimeslotSet :
            opt # {} =>
                \E is_optional_slot \in BOOLEAN :
                    /\ is_optional_slot => (\E i \in opt : starts(v, i, t))
                    /\ ~is_optional_slot => ~(\E i \in opt : starts(v, i, t))
                    /\ \A i \in SessionIdx :
                           (/\ sessions[i].class_id \in main_classes
                            /\ sessions[i].subject_id \notin optional_course_subjects)
                               => (is_optional_slot => ~starts(v, i, t))

\* _add_structural_constraints
StructuralConstraints(v) == NoLateStart(v) /\ OptionalBlocks(v)

\* the mutated rules: rule 2, on the start of Lab sessions, is left out
SchedulingRulesNoLabRule(v) ==
    \A i \in SessionIdx :
        LET subject == subjects[sessions[i].subject_id]
            is_lab == subject.required_room_type = "Lab"
            is_optional == subject.is_optional
            is_theory == ~is_lab /\ ~is_optional
        IN  \A t \in TimeslotSet :
                /\ t.period = 6 => ~starts(v, i, t)
                /\ (is_theory /\ t.period \in {7, 8, 9}) => ~starts(v, i, t)

\* _add_scheduling_rules
SchedulingRules(v) ==
    \A i \in SessionIdx :
        LET subject == subjects[sessions[i].subject_id]
            is_lab == subject.required_room_type = "Lab"
            is_optional == subject.is_optional
            is_theory == ~is_lab /\ ~is_optional
        IN  \A t \in TimeslotSet :
                /\ t.period = 6 => ~starts(v, i, t)
                /\ (is_lab /\ t.period \notin {1, 4, 7}) => ~starts(v, i, t)
                /\ (is_theory /\ t.period \in {7, 8, 9}) => ~starts(v, i, t)

\* session_on_day[(s, day)]
session_on_day(v, i, day) == \E t \in TimeslotSet : t.day = day /\ starts(v, i, t)

all_days == {t.day : t \in TimeslotSet}

\* the pairs i < j of one (class, subject) group
GroupPairs ==
    {<<i, j>> \in SessionIdx \X SessionIdx :
        /\ i < j
        /\ sessions[i].class_id = sessions[j].class_id
        /\ sessions[i].subject_id = sessions[j].subject_id}

\* the mutated constraint: only the same start slot is forbidden
SameDayHardSameSlot(v) ==
    \A <<i, j>> \in GroupPairs :
        sessions[i].teacher_id = sessions[j].teacher_id =>
            \A t \in TimeslotSet : ~(starts(v, i, t) /\ starts(v, j, t))

\* hard constraint of _add_same_day_course_constraints: same class, subject
\* and teacher never twice on a day
SameDayHard(v) ==
    \A <<i, j>> \in GroupPairs :
        sessions[i].teacher_id = sessions[j].teacher_id =>
            \A day \in all_days : ~(session_on_day(v, i, day) /\ session_on_day(v, j, day))

\* the both_on_day indicators that are true: different teachers, same day
SameDayPenalties(v) ==
    {<<i, j, day>> \in SessionIdx \X SessionIdx \X all_days :
        /\ <<i, j>> \in GroupPairs
        /\ sessions[i].teacher_id # sessions[j].teacher_id
        /\ session_on_day(v, i, day) /\ session_on_day(v, j, day)}

\* _add_soft_constraints: the maximized objective
Objective(v) ==
    LET pref == {<<i, t>> \in SessionIdx \X TimeslotSet :
                    /\ sessions[i].teacher_id \in DOMAIN teachers
                    /\ sessions[i].teacher_id \in DOMAIN teacher_preferences
                    /\ t \in teacher_preferences[sessions[i].teacher_id]
                    /\ starts(v, i, t)}
        late == {i \in SessionIdx :
                    /\ subjects[sessions[i].subject_id].is_optional
                    /\ v[i].chosen /\ v[i].t.period \in {7, 8, 9}}
    IN  Sum([x \in pref |-> teachers[sessions[x[1]].teacher_id].seniority], pref)
        - 1000 * Cardinality(late)
        - 1000 * Cardinality(SameDayPenalties(v))

\* every constraint added to self.model by solve()
Constraints(v) ==
    /\ CoreConstraints(v)
    /\ StructuralConstraints(v)
    /\ SchedulingRules(v)
    /\ SameDayHard(v)

\* the valuations of the assignment variables of sessions 1..n
RECURSIVE ValuationsUpTo(_)
ValuationsUpTo(n) ==
    IF n = 0 THEN {<<>>}
    ELSE {Append(v, k) : v \in ValuationsUpTo(n - 1), k \in assignment(n) \cup {NoKey}}

Valuations == ValuationsUpTo(Len(sessions))

Satisfying == {v \in Valuations : Constraints(v)}

\* the valuations of S whose objective is the maximum over S
Optimal(S) ==
    LET objs == {Objective(v) : v \in S}
        best == CHOOSE m \in objs : \A o \in objs : o <= m
    IN  {v \in S : Objective(v) = best}

\* CpSolver.Solve under max_time_in_seconds: the statuses it can end with and,
\* for OPTIMAL and FEASIBLE, the valuation it holds
SolverOutcomes ==
    LET S == Satisfying
    IN       {[status |-> "OPTIMAL", value |-> v] : v \in Optimal(S)}
        \cup {[status |-> "FEASIBLE", value |-> v] : v \in S}
        \cup (IF S = {} THEN {[status |-> "INFEASIBLE", value |-> <<>>]} ELSE {})
        \cup {[status |-> "UNKNOWN", value |-> <<>>]}

\* solution[session_id] = (t, r_id) for every assignment variable that is true
Extract(v) ==
    LET chosen == {i \in SessionIdx : v[i].chosen}
    IN  [sid \in {sessions[i].session_id : i \in chosen} |->
            LET i == CHOOSE j \in chosen : sessions[j].session_id = sid
            IN  [t |-> v[i].t, r_id |-> v[i].r_id]]

\* the mutated return: the failure branch hands back what the search holds
SolveReturnLeaky(o) ==
    IF o.status \in {"OPTIMAL", "FEASIBLE"}
    THEN [success |-> TRUE, solution |-> Extract(o.value)]
    ELSE [success |-> FALSE,
          solution |-> [sid \in {sessions[1].session_id} |->
                           [t |-> timeslots[1], r_id |-> R1]]]

\* the mutated return: only a proven optimum counts as a success
SolveReturnOptimalOnly(o) ==
    IF o.status = "OPTIMAL"
    THEN [success |-> TRUE, solution |-> Extract(o.value)]
    ELSE [success |-> FALSE, solution |-> <<>>]

\* the tail of ORTimetableSolver.solve
SolveReturn(o) ==
    IF o.status \in {"OPTIMAL", "FEASIBLE"}
    THEN [success |-> TRUE, solution |-> Extract(o.value)]
    ELSE [success |-> FALSE, solution |-> <<>>]

----------------------------------------------------------------------------
(* run() *)

\* active_classes: the classes present in the curriculum
active_classes == {c \in DOMAIN classes : \E i \in SessionIdx : sessions[i].class_id = c}

\* sessions whose subject is optional are left out (optional_included = False)
NonOptional(ss) == SelectSeq(ss, LAMBDA s : ~subjects[s.subject_id].is_optional)

OutputFiles == {"class_timetables", "teacher_timetables", "all_assignments.csv",
                "homerooms.csv"}

\* the mutated handler: the ValueError is swallowed and run() goes on
\* without any home room
HomeRoomsFailureGoesOn ==
    /\ home_room_map' = {<<>>}
    /\ pc' = "filter"
    /\ UNCHANGED run_result

\* except ValueError as e: return {'status': f"ERROR: {e}", ...}
HomeRoomsFailure ==
    /\ home_room_map' = {}
    /\ pc' = "done"
    /\ run_result' = [status |-> "ERROR", sessions_total |-> 0, sessions_scheduled |-> 0]

\* home_room_map = assign_home_rooms(active_classes, rooms)
RunHomeRooms ==
    /\ pc = "home_rooms"
    /\ LET res == assign_home_rooms(active_classes, rooms)
       IN  IF res.raised
           THEN HomeRoomsFailure
           ELSE /\ home_room_map' = res.value
                /\ pc' = "filter"
                /\ UNCHANGED run_result
    /\ UNCHANGED <<classes, rooms, teachers, unavailability, curriculum, sessions,
                   timeslots, solver_status, solve_result, output_written, solver, ui>>

\* the optional sessions are filtered out; without sessions run() returns
RunFilter ==
    /\ pc = "filter"
    /\ sessions' = NonOptional(sessions)
    /\ IF sessions' = <<>>
       THEN /\ pc' = "done"
            /\ run_result' = [status |-> "WARNING: No valid session data",
                              sessions_total |-> 0, sessions_scheduled |-> 0]
       ELSE /\ pc' = "solve"
            /\ UNCHANGED run_result
    /\ UNCHANGED <<classes, rooms, teachers, unavailability, curriculum, home_room_map,
                   timeslots, solver_status, solve_result, output_written, solver, ui>>

\* success, assignment = solver.solve()
RunSolve ==
    /\ pc = "solve"
    /\ \E o \in SolverOutcomes :
           /\ solver_status' = o.status
           /\ solve_result' = SolveReturn(o)
    /\ pc' = "solved"
    /\ UNCHANGED <<classes, rooms, teachers, unavailability, curriculum, sessions,
                   home_room_map, timeslots, run_result, output_written, solver, ui>>

\* the dict run() returns after the solve
RunSummary(success, solution) ==
    [status |-> IF success THEN "SUCCESS" ELSE "WARNING: No solution found",
     sessions_total |-> Len(sessions),
     sessions_scheduled |-> Cardinality(DOMAIN solution)]

\* the output tables are written on success only, then run() returns
RunFinish ==
    /\ pc = "solved"
    /\ output_written' = IF solve_result.success THEN OutputFiles ELSE output_written
    /\ run_result' = RunSummary(solve_result.success, solve_result.solution)
    /\ pc' = "done"
    /\ UNCHANGED <<classes, rooms, teachers, unavailability, curriculum, sessions,
                   home_room_map, timeslots, solver_status, solve_result, solver, ui>>

----------------------------------------------------------------------------
(* cache.py: TimetableSolver, backtracking with MRV.                        *)
(* The busy indexes are the key sets of the dicts teacher_busy, class_busy  *)
(* and room_busy (every stored value is True). backtrack() is run one step  *)
(* at a time on an explicit stack: a frame holds the session chosen by the  *)
(* call, its sorted domain and the index k of the value the loop is at; its *)
(* field before remembers what the solver held when the call last placed a  *)
(* value ({} until it places one).                                          *)

\* before any TimetableSolver is built
NoSolver ==
    [room_ids |-> <<>>, assignment |-> <<>>, teacher_busy |-> {}, class_busy |-> {},
     room_busy |-> {}, unassigned_ids |-> <<>>, frames |-> <<>>, ret |-> FALSE,
     time_exceeded |-> FALSE, at_expiry |-> <<>>,
     result |-> [success |-> FALSE, assignment |-> <<>>]]

\* TimetableSolver.__init__
NewSolver(room_ids) == [NoSolver EXCEPT !.room_ids = room_ids]

\* next(x for x in self.sessions if x.session_id == sid)
SessionOf(sid) == sessions[CHOOSE i \in SessionIdx : sessions[i].session_id = sid]

\* the (t, r) pairs of one timeslot: the fixed room or every room, capacity
\* checked
DomainAt(s, t) ==
    LET candidate_rooms == IF s.room_id # {} THEN <<Cell(s.room_id)>> ELSE solver.room_ids
        fits == SelectSeq(candidate_rooms,
                          LAMBDA r : classes[s.class_id].size <= rooms[r].capacity)
    IN  [k \in 1..Len(fits) |-> [t |-> t, r |-> fits[k]]]

\* _compute_initial_domains, for the session s and the timeslots from k on
RECURSIVE DomainFrom(_, _)
DomainFrom(s, k) ==
    IF k > Len(timeslots) THEN <<>>
    ELSE (IF timeslots[k] \in UnavailableOf(s.teacher_id) THEN <<>>
          ELSE DomainAt(s, timeslots[k]))
         \o DomainFrom(s, k + 1)

initial_domains(sid) == DomainFrom(SessionOf(sid), 1)

\* sorted(domain, key=lambda x: (x[0].day, x[0].period)): a stable sort
RECURSIVE SortedDomain(_)
SortedDomain(d) ==
    IF d = <<>> THEN <<>>
    ELSE LET m == CHOOSE k \in 1..Len(d) :
                      /\ \A j \in 1..Len(d) : ~TimeslotLess(d[j].t, d[k].t)
                      /\ \A j \in 1..(k - 1) : TimeslotLess(d[k].t, d[j].t)
         IN  <<d[m]>> \o SortedDomain(SubSeq(d, 1, m - 1) \o SubSeq(d, m + 1, Len(d)))

\* the mutated test: the room index is not consulted
_is_consistentNoRoom(sv, s, t, r) ==
    /\ <<s.teacher_id, t>> \notin sv.teacher_busy
    /\ <<s.class_id, t>> \notin sv.class_busy

_is_consistent(sv, s, t, r) ==
    /\ <<s.teacher_id, t>> \notin sv.teacher_busy
    /\ <<s.class_id, t>> \notin sv.class_busy
    /\ <<r, t>> \notin sv.room_busy

\* self.assignment[s.session_id] = (t, r)
Bind(a, sid, val) == [x \in DOMAIN a \cup {sid} |-> IF x = sid THEN val ELSE a[x]]

\* del self.assignment[s.session_id]
Unbind(a, sid) == [x \in DOMAIN a \ {sid} |-> a[x]]

_place(sv, s, t, r) ==
    [sv EXCEPT !.assignment = Bind(@, s.session_id, [t |-> t, r_id |-> r]),
               !.teacher_busy = @ \cup {<<s.teacher_id, t>>},
               !.class_busy = @ \cup {<<s.class_id, t>>},
               !.room_busy = @ \cup {<<r, t>>}]

\* the mutated undo: the room stays marked busy
_removeKeepsRoom(sv, s, t, r) ==
    [sv EXCEPT !.assignment = Unbind(@, s.session_id),
               !.teacher_busy = @ \ {<<s.teacher_id, t>>},
               !.class_busy = @ \ {<<s.class_id, t>>}]

_remove(sv, s, t, r) ==
    [sv EXCEPT !.assignment = Unbind(@, s.session_id),
               !.teacher_busy = @ \ {<<s.teacher_id, t>>},
               !.class_busy = @ \ {<<s.class_id, t>>},
               !.room_busy = @ \ {<<r, t>>}]

\* len(initial_domains[sid]) - pruned
domain_size(sv, sid) ==
    LET d == initial_domains(sid)
    IN  Cardinality({k \in 1..Len(d) : _is_consistent(sv, SessionOf(sid), d[k].t, d[k].r)})

\* the first id of the list whose domain_size is below that of every id
\* before it and not above that of any id after it
_select_unassigned_session(sv) ==
    LET ids == sv.unassigned_ids
        best == CHOOSE k \in 1..Len(ids) :
                    /\ \A j \in 1..(k - 1) : domain_size(sv, ids[j]) > domain_size(sv, ids[k])
                    /\ \A j \in (k + 1)..Len(ids) :
                           domain_size(sv, ids[j]) >= domain_size(sv, ids[k])
    IN  ids[best]

\* the assignment and the three busy indexes, as one value: what a call of
\* backtrack() finds before it places a value
Snapshot(sv) ==
    [assignment |-> sv.assignment, teacher_busy |-> sv.teacher_busy,
     class_busy |-> sv.class_busy, room_busy |-> sv.room_busy]

\* unassigned_ids.remove(sid)
ListRemove(ids, sid) == SelectSeq(ids, LAMBDA x : x # sid)

----------------------------------------------------------------------------
(* app.py: the Generator and Schedules pages.                               *)
(* A timetable file of output/ holds {} when absent and {c} when it holds   *)
(* the timetable c; st.cache_data keeps, for the server process, one entry  *)
(* per argument value of the decorated function.                            *)

\* before the app is served
NoUI == [menu |-> "None", output |-> <<>>, cache |-> <<>>, view |-> {}]

\* the timetable pages create_output_tables writes, one per class and teacher
SortedHtmlFiles == <<"class_11A_timetable.html", "teacher_T1_timetable.html">>

HtmlFiles == Range(SortedHtmlFiles)

\* the body of get_asc_styled_html: the notice when the file is absent,
\* else the restyled page of the timetable the file holds
get_asc_styled_html(output, file_path) ==
    IF output[file_path] = {}
    THEN [found |-> FALSE, styled |-> {}]
    ELSE [found |-> TRUE, styled |-> output[file_path]]

\* @st.cache_data: the value stored for this argument if there is one, else
\* the value of the body, which is stored
CachedCall(u, file_path) ==
    LET hit == file_path \in DOMAIN u.cache
        value == IF hit THEN u.cache[file_path]
                 ELSE get_asc_styled_html(u.output, file_path)
    IN  [value |-> value,
         cache |-> [f \in DOMAIN u.cache \cup {file_path} |->
                       IF f = file_path THEN value ELSE u.cache[f]]]

\* sorted([f for f in os.listdir("output") if f.endswith(".html")])
ListedFiles(u) == {f \in DOMAIN u.output : u.output[f] # {}}

\* one run of the script with menu == "Schedules" and the file selected
SchedulesRun(u, selected_file) ==
    IF ListedFiles(u) = {}
    THEN [u EXCEPT !.menu = "Schedules", !.view = {}]
    ELSE LET call == CachedCall(u, selected_file)
         IN  [u EXCEPT !.menu = "Schedules", !.cache = call.cache,
                       !.view = {[file |-> selected_file, html |-> call.value]}]

----------------------------------------------------------------------------
(* The inputs of run() *)

Grid(days, periods) == SortedTimeslots({Timeslot(d, p) : d \in days, p \in periods})

Grids == {Grid({1, 2}, {1, 2, 3}), Grid({1, 2}, {5, 6, 7})}

ClassTable == [c \in {c11A, c11B} |-> [size |-> 30]]

Room(n, cap, ty) == [name |-> n, capacity |-> cap, type |-> ty]

RoomTables ==
    {[r \in {R1, R2, LB1} |->
         IF r = LB1 THEN Room(name_lab, 30, "Lab") ELSE Room(name_r1, 30, "Theory")],
     [r \in {R1, LB1} |->
         IF r = LB1 THEN Room(name_lab, 30, "Lab") ELSE Room(name_r1, 30, "Theory")]}

TeacherTables ==
    {[t \in {"T1", "T2"} |->
         IF t = "T1" THEN [seniority |-> 2, max_load_day |-> 2, max_load_week |-> w]
         ELSE [seniority |-> 1, max_load_day |-> 2, max_load_week |-> 4]] :
     w \in {2, 3}}

UnavailabilityTables == {<<>>, [t \in {"T1"} |-> {Timeslot(1, 1)}]}

\* the demand lines a curriculum.csv is made of: class, subject, teacher
CurriculumLines ==
    << <<c11A, "TH1", "T1">>, <<c11B, "TH1", "T1">>, <<c11A, "LAB1", "T2">>,
       <<c11B, "LAB1", "T1">>, <<c11A, "TH2", "TX">>, <<c11B, "TH2", "TX">> >>

Row(line, n) ==
    [class_id |-> {line[1]}, subject_id |-> {line[2]}, teacher_id |-> {line[3]},
     periods_per_week |-> {n}, room_id |-> {}]

\* a curriculum.csv that exists, with the given columns and rows
File(columns, rows) == [exists |-> TRUE, columns |-> columns, rows |-> rows]

\* the curricula: the rows of CurriculumLines, each with its periods_per_week
Curricula ==
    {File(all_possible_cols, [k \in DOMAIN CurriculumLines |-> Row(CurriculumLines[k], ppw[k])]) :
        ppw \in {f \in [DOMAIN CurriculumLines -> 0..MaxPPW] :
                    Sum(f, DOMAIN f) \in 1..MaxSessions}}

\* the state of run() once the tables are loaded
Init ==
    /\ pc = "home_rooms"
    /\ classes = ClassTable
    /\ rooms \in RoomTables
    /\ teachers \in TeacherTables
    /\ unavailability \in UnavailabilityTables
    /\ timeslots \in Grids
    /\ curriculum \in Curricula
    /\ sessions = Cell(load_curriculum(curriculum).value)
    /\ home_room_map = {}
    /\ solver_status = "NotRun"
    /\ solve_result = [success |-> FALSE, solution |-> <<>>]
    /\ run_result = [status |-> "NotReturned", sessions_total |-> 0, sessions_scheduled |-> 0]
    /\ output_written = {}
    /\ solver = NoSolver
    /\ ui = NoUI

Next == RunHomeRooms \/ RunFilter \/ RunSolve \/ RunFinish

Spec == Init /\ [][Next]_vars

----------------------------------------------------------------------------
(* run() on tables that stress the room domains: a lab room too small or    *)
(* absent, a class that classes.csv does not list, a Lab subject without    *)
(* viable rooms, a Lab subject whose viable room is a theory room           *)

RoomTablesDomains ==
    RoomTables
    \cup {[rt EXCEPT ![LB1].capacity = 20] : rt \in RoomTables}
    \cup {[r \in {R1, R2} |-> Room(name_r1, 30, "Theory")]}

DomainLines ==
    << <<c11A, "TH1", "T1">>, <<c11B, "LAB1", "T2">>, <<c11C, "TH2", "T2">>,
       <<c11A, "LAB2", "T1">>, <<c11B, "LAB3", "T2">>, <<c11B, "TH1", "T2">> >>

InitDomains ==
    /\ pc = "home_rooms"
    /\ classes = ClassTable
    /\ rooms \in RoomTablesDomains
    /\ teachers \in TeacherTables
    /\ unavailability = <<>>
    /\ timeslots = Grid({1, 2}, {1, 2, 3})
    /\ \E ppw \in [DOMAIN DomainLines -> 0..MaxPPW] :
           /\ Sum(ppw, DOMAIN ppw) \in 1..MaxSessions
           /\ curriculum = File(all_possible_cols,
                                [k \in DOMAIN DomainLines |-> Row(DomainLines[k], ppw[k])])
    /\ sessions = Cell(load_curriculum(curriculum).value)
    /\ home_room_map = {}
    /\ solver_status = "NotRun"
    /\ solve_result = [success |-> FALSE, solution |-> <<>>]
    /\ run_result = [status |-> "NotReturned", sessions_total |-> 0, sessions_scheduled |-> 0]
    /\ output_written = {}
    /\ solver = NoSolver
    /\ ui = NoUI

SpecDomains == InitDomains /\ [][Next]_vars

----------------------------------------------------------------------------
(* run() on a week that has the periods the scheduling rules name: day 1    *)
(* with periods 4 to 7, day 2 with periods 7 to 9; a main class and one of  *)
(* its optional groups; subjects of one, two and three periods              *)

ClassTableRules == [c \in {c12A, c12A1} |-> [size |-> 30]]

\* one theory room per room name, and the lab
RoomTableRules ==
    [r \in {R1, R2, LB1} |->
        IF r = LB1 THEN Room(name_lab, 30, "Lab")
        ELSE Room(IF r = R1 THEN name_r1 ELSE name_r2, 30, "Theory")]

TeacherTableRules ==
    [t \in {"T1", "T2"} |-> [seniority |-> 1, max_load_day |-> 4, max_load_week |-> 6]]

GridRules ==
    SortedTimeslots({Timeslot(1, p) : p \in 4..7} \cup {Timeslot(2, p) : p \in 7..9})

RulesLines ==
    << <<c12A, "TH1", "T1">>, <<c12A1, "TH2", "T2">>, <<c12A, "HUM101", "T1">>,
       <<c12A1, "LAB4", "T1">>, <<c12A, "TH3", "T1">>, <<c12A1, "HUM103", "T2">> >>

InitRules ==
    /\ pc = "home_rooms"
    /\ classes = ClassTableRules
    /\ rooms = RoomTableRules
    /\ teachers = TeacherTableRules
    /\ unavailability \in {<<>>, [t \in {"T1"} |-> {Timeslot(1, 5)}]}
    /\ timeslots = GridRules
    /\ \E ppw \in [DOMAIN RulesLines -> 0..MaxPPW] :
           /\ Sum(ppw, DOMAIN ppw) \in 1..MaxSessions
           /\ curriculum = File(all_possible_cols,
                                [k \in DOMAIN RulesLines |-> Row(RulesLines[k], ppw[k])])
    /\ sessions = Cell(load_curriculum(curriculum).value)
    /\ home_room_map = {}
    /\ solver_status = "NotRun"
    /\ solve_result = [success |-> FALSE, solution |-> <<>>]
    /\ run_result = [status |-> "NotReturned", sessions_total |-> 0, sessions_scheduled |-> 0]
    /\ output_written = {}
    /\ solver = NoSolver
    /\ ui = NoUI

SpecRules == InitRules /\ [][Next]_vars

----------------------------------------------------------------------------
(* assign_home_rooms on its own: any class set against any room table *)

ClassIdUniverse == {c11A, c11B, c11C, c12A, c12B, c1_1_A, c1_1_B}

RoomIdList == <<R1, R2, R3, R4, R5>>

RoomIdUniverse ==
    {RoomIdList[k] : k \in 1..(IF MaxRooms < Len(RoomIdList) THEN MaxRooms ELSE Len(RoomIdList))}

RoomKinds == {Room(name_r1, 30, "Theory"), Room(name_r2, 30, "Theory"),
              Room(name_lab, 30, "Lab")}

InitHomeRooms ==
    /\ pc = "call"
    /\ \E cs \in SUBSET ClassIdUniverse :
           /\ Cardinality(cs) <= MaxClasses
           /\ classes = [c \in cs |-> [size |-> 30]]
    /\ \E rs \in SUBSET RoomIdUniverse : rooms \in [rs -> RoomKinds]
    /\ teachers = <<>>
    /\ unavailability = <<>>
    /\ timeslots = <<>>
    /\ curriculum = File(all_possible_cols, <<>>)
    /\ sessions = <<>>
    /\ home_room_map = {}
    /\ solver_status = "NotRun"
    /\ solve_result = [success |-> FALSE, solution |-> <<>>]
    /\ run_result = [status |-> "NotReturned", sessions_total |-> 0, sessions_scheduled |-> 0]
    /\ output_written = {}
    /\ solver = NoSolver
    /\ ui = NoUI

\* m = assign_home_rooms(classes, rooms), returning or raising
CallAssignHomeRooms ==
    /\ pc = "call"
    /\ LET res == assign_home_rooms(DOMAIN classes, rooms)
       IN  /\ pc' = IF res.raised THEN "raised" ELSE "returned"
           /\ home_room_map' = res.value
    /\ UNCHANGED <<classes, rooms, teachers, unavailability, curriculum, sessions,
                   timeslots, solver_status, solve_result, run_result, output_written, solver, ui>>

NextHomeRooms == CallAssignHomeRooms

SpecHomeRooms == InitHomeRooms /\ [][NextHomeRooms]_vars

----------------------------------------------------------------------------
(* load_curriculum on its own: any file of up to MaxRows rows *)

\* room_id cells: empty, blank, an id with blanks around it
RoomCells == {{}, {<<" ", " ">>}, {<<" ", "R", "1", " ">>}}

\* the rows that have every required cell
CompleteRows ==
    {[Row(line, n) EXCEPT !.room_id = rc] :
        line \in {<<c11A, "TH1", "T1">>, <<c11B, "LAB1", "T2">>},
        n \in 0..MaxPPW, rc \in RoomCells}

\* rows with one required cell empty
IncompleteRows ==
    {[Row(<<c11A, "TH1", "T1">>, 1) EXCEPT ![c] = {}] : c \in required_cols}

RowsUpTo(n) == UNION {[1..k -> CompleteRows \cup IncompleteRows] : k \in 0..n}

\* no file at all, or a file with every column, without the optional room_id
\* column, or without the required teacher_id column
CurriculumFiles ==
    {[exists |-> FALSE, columns |-> {}, rows |-> <<>>]}
    \cup {File(columns, rows) :
            columns \in {all_possible_cols, required_cols, all_possible_cols \ {"teacher_id"}},
            rows \in RowsUpTo(MaxRows)}

InitCurriculum ==
    /\ pc = "load"
    /\ curriculum \in CurriculumFiles
    /\ classes = <<>>
    /\ rooms = <<>>
    /\ teachers = <<>>
    /\ unavailability = <<>>
    /\ timeslots = <<>>
    /\ sessions = <<>>
    /\ home_room_map = {}
    /\ solver_status = "NotRun"
    /\ solve_result = [success |-> FALSE, solution |-> <<>>]
    /\ run_result = [status |-> "NotReturned", sessions_total |-> 0, sessions_scheduled |-> 0]
    /\ output_written = {}
    /\ solver = NoSolver
    /\ ui = NoUI

\* sessions = load_curriculum(), returning or raising
CallLoadCurriculum ==
    /\ pc = "load"
    /\ LET res == load_curriculum(curriculum)
       IN  /\ pc' = IF res.raised THEN "load_raised" ELSE "loaded"
           /\ sessions' = IF res.raised THEN <<>> ELSE Cell(res.value)
    /\ UNCHANGED <<classes, rooms, teachers, unavailability, curriculum, home_room_map,
                   timeslots, solver_status, solve_result, run_result, output_written, solver, ui>>

NextCurriculum == CallLoadCurriculum

SpecCurriculum == InitCurriculum /\ [][NextCurriculum]_vars

----------------------------------------------------------------------------
(* cache.py: run() with the backtracking solver *)

Others == <<classes, rooms, teachers, unavailability, curriculum, sessions, home_room_map,
            timeslots, solver_status, solve_result, ui>>

TopFrame == solver.frames[Len(solver.frames)]

PopFrame(sv) == [sv EXCEPT !.frames = SubSeq(@, 1, Len(@) - 1)]

\* solve(): start_time is taken and unassigned_ids is filled
SolveStart ==
    /\ pc = "bt_solve"
    /\ solver' = [solver EXCEPT
                      !.unassigned_ids = [i \in SessionIdx |-> sessions[i].session_id]]
    /\ pc' = "bt_call"
    /\ UNCHANGED <<Others, run_result, output_written>>

\* the clock passes start_time + time_limit_sec while solve() runs
TimeExpires ==
    /\ pc \in {"bt_call", "bt_loop", "bt_return"}
    /\ ~solver.time_exceeded
    /\ solver' = [solver EXCEPT !.time_exceeded = TRUE, !.at_expiry = solver.assignment]
    /\ UNCHANGED <<pc, Others, run_result, output_written>>

\* backtrack() is entered: the two tests, the selection, the sorted domain
BacktrackCall ==
    /\ pc = "bt_call"
    /\ IF solver.time_exceeded
       THEN solver' = [solver EXCEPT !.ret = FALSE] /\ pc' = "bt_return"
       ELSE IF solver.unassigned_ids = <<>>
       THEN solver' = [solver EXCEPT !.ret = TRUE] /\ pc' = "bt_return"
       ELSE LET sid == _select_unassigned_session(solver)
                frame == [sid |-> sid, domain |-> SortedDomain(initial_domains(sid)), k |-> 1,
                          before |-> {}]
            IN  /\ solver' = [solver EXCEPT !.frames = Append(@, frame)]
                /\ pc' = "bt_loop"
    /\ UNCHANGED <<Others, run_result, output_written>>

\* the mutated loop: it gives up after the first value of the domain
BacktrackLoopFirstValueOnly ==
    /\ pc = "bt_loop"
    /\ LET f == TopFrame
           s == SessionOf(f.sid)
       IN  IF f.k > 1 \/ solver.time_exceeded
           THEN /\ solver' = [PopFrame(solver) EXCEPT !.ret = FALSE]
                /\ pc' = "bt_return"
           ELSE IF _is_consistent(solver, s, f.domain[f.k].t, f.domain[f.k].r)
           THEN /\ solver' = [_place(solver, s, f.domain[f.k].t, f.domain[f.k].r)
                                 EXCEPT !.unassigned_ids = ListRemove(@, f.sid),
                                        !.frames[Len(solver.frames)].before =
                                            {Snapshot(solver)}]
                /\ pc' = "bt_call"
           ELSE /\ solver' = [solver EXCEPT !.frames[Len(solver.frames)].k = @ + 1]
                /\ pc' = "bt_loop"
    /\ UNCHANGED <<Others, run_result, output_written>>

\* one turn of 'for (t, r) in domain' in the innermost call
BacktrackLoop ==
    /\ pc = "bt_loop"
    /\ LET f == TopFrame
           s == SessionOf(f.sid)
       IN  IF f.k > Len(f.domain) \/ solver.time_exceeded
           THEN /\ solver' = [PopFrame(solver) EXCEPT !.ret = FALSE]
                /\ pc' = "bt_return"
           ELSE IF _is_consistent(solver, s, f.domain[f.k].t, f.domain[f.k].r)
           THEN /\ solver' = [_place(solver, s, f.domain[f.k].t, f.domain[f.k].r)
                                 EXCEPT !.unassigned_ids = ListRemove(@, f.sid),
                                        !.frames[Len(solver.frames)].before =
                                            {Snapshot(solver)}]
                /\ pc' = "bt_call"
           ELSE /\ solver' = [solver EXCEPT !.frames[Len(solver.frames)].k = @ + 1]
                /\ pc' = "bt_loop"
    /\ UNCHANGED <<Others, run_result, output_written>>

\* the mutated return: the outcome of the search is reported as a success
BacktrackReturnAlwaysTrue ==
    /\ pc = "bt_return"
    /\ IF solver.frames = <<>>
       THEN /\ solver' = [solver EXCEPT
                             !.result = [success |-> TRUE, assignment |-> solver.assignment]]
            /\ pc' = "bt_done"
       ELSE LET f == TopFrame
                s == SessionOf(f.sid)
            IN  IF solver.ret
                THEN solver' = PopFrame(solver) /\ pc' = "bt_return"
                ELSE /\ solver' = [_remove(solver, s, f.domain[f.k].t, f.domain[f.k].r)
                                      EXCEPT !.unassigned_ids = Append(@, f.sid),
                                             !.frames[Len(solver.frames)].k = @ + 1]
                     /\ pc' = "bt_loop"
    /\ UNCHANGED <<Others, run_result, output_written>>

\* a call of backtrack() hands its value back: to solve(), which returns
\* (success, self.assignment), or to the call that placed a value, which
\* returns True in its turn or undoes the placement and goes on with the loop
BacktrackReturn ==
    /\ pc = "bt_return"
    /\ IF solver.frames = <<>>
       THEN /\ solver' = [solver EXCEPT
                             !.result = [success |-> solver.ret,
                                         assignment |-> solver.assignment]]
            /\ pc' = "bt_done"
       ELSE LET f == TopFrame
                s == SessionOf(f.sid)
            IN  IF solver.ret
                THEN solver' = PopFrame(solver) /\ pc' = "bt_return"
                ELSE /\ solver' = [_remove(solver, s, f.domain[f.k].t, f.domain[f.k].r)
                                      EXCEPT !.unassigned_ids = Append(@, f.sid),
                                             !.frames[Len(solver.frames)].k = @ + 1]
                     /\ pc' = "bt_loop"
    /\ UNCHANGED <<Others, run_result, output_written>>

\* run() after solve(): the status, the export of whatever there is, the summary
FallbackFinish ==
    /\ pc = "bt_done"
    /\ run_result' =
           [status |-> IF solver.result.success THEN "SUCCESS"
                       ELSE "WARNING: No complete solution found within time limit",
            sessions_total |-> Len(sessions),
            sessions_scheduled |-> Cardinality(DOMAIN solver.result.assignment)]
    /\ output_written' = {"class_timetables", "teacher_timetables", "all_assignments.csv"}
    /\ pc' = "done"
    /\ UNCHANGED <<Others, solver>>

\* the sessions cache.py is given: class, teacher, fixed room
SolverLines ==
    {<<c11A, "T1", {}>>, <<c11A, "T2", {}>>, <<c11B, "T2", {R2}>>, <<c11B, "T1", {}>>}

SolverSessions ==
    UNION {{[i \in 1..n |->
                [session_id |-> <<"S", i>>, class_id |-> f[i][1], subject_id |-> "TH1",
                 teacher_id |-> f[i][2], room_id |-> f[i][3]]] : f \in [1..n -> SolverLines]}
           : n \in 1..MaxSolverSessions}

\* rooms.csv in file order: R1 holds either class, R2 only the smaller one
SolverRoomLists == {<<R1, R2>>, <<R2, R1>>}

InitFallback ==
    /\ pc = "bt_solve"
    /\ classes = [c \in {c11A, c11B} |-> [size |-> IF c = c11A THEN 30 ELSE 20]]
    /\ \E ids \in SolverRoomLists :
           /\ rooms = [r \in Range(ids) |->
                          [name |-> name_r1, capacity |-> IF r = R1 THEN 30 ELSE 20]]
           /\ solver = NewSolver(ids)
    /\ teachers = [t \in {"T1", "T2"} |-> "name"]
    /\ unavailability \in {<<>>, [t \in {"T1", "T2"} |->
                                     IF t = "T1" THEN {Timeslot(1, 3)} ELSE {Timeslot(1, 2)}]}
    /\ timeslots = <<Timeslot(1, 2), Timeslot(1, 1), Timeslot(1, 3)>>
    /\ curriculum = File(all_possible_cols, <<>>)
    /\ sessions \in SolverSessions
    /\ ui = NoUI
    /\ home_room_map = {}
    /\ solver_status = "NotRun"
    /\ solve_result = [success |-> FALSE, solution |-> <<>>]
    /\ run_result = [status |-> "NotReturned", sessions_total |-> 0, sessions_scheduled |-> 0]
    /\ output_written = {}

NextFallback ==
    SolveStart \/ TimeExpires \/ BacktrackCall \/ BacktrackLoop \/ BacktrackReturn
    \/ FallbackFinish

SpecFallback == InitFallback /\ [][NextFallback]_vars

----------------------------------------------------------------------------
(* app.py: the pages of the app *)

NotUI == <<pc, classes, rooms, teachers, unavailability, curriculum, sessions,
           home_room_map, timeslots, solver_status, solve_result, run_result,
           output_written, solver>>

\* the sidebar radio is set to a page other than Schedules
OpenPage ==
    /\ \E m \in {"Dashboard", "Generator"} :
           /\ ui.menu # m
           /\ ui' = [ui EXCEPT !.menu = m, !.view = {}]
    /\ UNCHANGED NotUI

\* "Start Computation": solver_engine.run() writes every timetable page when
\* it finds a timetable, and nothing otherwise
StartComputation ==
    /\ ui.menu = "Generator"
    /\ \/ \E c \in 1..MaxTimetables :
              ui' = [ui EXCEPT !.output = [f \in HtmlFiles |-> {c}]]
       \/ ui' = ui
    /\ UNCHANGED NotUI

\* the sidebar radio is set to Schedules: the selectbox shows its first file
OpenSchedules ==
    /\ ui.menu # "Schedules"
    /\ ui' = SchedulesRun(ui, SortedHtmlFiles[1])
    /\ UNCHANGED NotUI

\* another file is picked in the selectbox
SelectTimetable ==
    /\ ui.menu = "Schedules"
    /\ \E f \in ListedFiles(ui) :
           /\ \A w \in ui.view : w.file # f
           /\ ui' = SchedulesRun(ui, f)
    /\ UNCHANGED NotUI

\* "Refresh": st.rerun() runs the script again with the same selection
Refresh ==
    /\ ui.menu = "Schedules"
    /\ \E w \in ui.view : ui' = SchedulesRun(ui, w.file)
    /\ UNCHANGED NotUI

InitUI ==
    /\ pc = "done"
    /\ classes = ClassTable
    /\ rooms = RoomTableRules
    /\ teachers = TeacherTableRules
    /\ unavailability = <<>>
    /\ timeslots = Grid({1, 2}, {1, 2, 3})
    /\ curriculum = File(all_possible_cols, <<>>)
    /\ sessions = <<>>
    /\ home_room_map = {}
    /\ solver_status = "NotRun"
    /\ solve_result = [success |-> FALSE, solution |-> <<>>]
    /\ run_result = [status |-> "NotReturned", sessions_total |-> 0, sessions_scheduled |-> 0]
    /\ output_written = {}
    /\ solver = NoSolver
    /\ \E out \in {[f \in HtmlFiles |-> {}]} \cup {[f \in HtmlFiles |-> {c}] : c \in 1..MaxTimetables} :
           ui = [menu |-> "Dashboard", output |-> out, cache |-> <<>>, view |-> {}]

NextUI == OpenPage \/ StartComputation \/ OpenSchedules \/ SelectTimetable \/ Refresh

SpecUI == InitUI /\ [][NextUI]_vars

----------------------------------------------------------------------------
(* What a returned timetable says *)

\* solve() has returned success=true
Succeeded == pc \in {"solved", "done"} /\ solve_result.success

IsPlaced(i) == sessions[i].session_id \in DOMAIN solve_result.solution

Placed(i) == solve_result.solution[sessions[i].session_id]

\* the (day, period) cells a placed session occupies: its start period and
\* the duration-1 periods after it
Occupied(i) ==
    {<<Placed(i).t.day, Placed(i).t.period + k>> : k \in 0..(duration(i) - 1)}

PlacedPairs == {<<i, j>> \in SessionIdx \X SessionIdx : i # j /\ IsPlaced(i) /\ IsPlaced(j)}

\* C1: in a successful assignment no two distinct sessions of the same teacher
\* occupy a common (day, period)
C1_TeacherSessionsDisjoint ==
    Succeeded =>
        \A <<i, j>> \in PlacedPairs :
            sessions[i].teacher_id = sessions[j].teacher_id
                => Occupied(i) \cap Occupied(j) = {}

\* C2: in a successful assignment no two distinct sessions of the same class
\* occupy a common (day, period), durations counted
C2_ClassSessionsDisjoint ==
    Succeeded =>
        \A <<i, j>> \in PlacedPairs :
            sessions[i].class_id = sessions[j].class_id
                => Occupied(i) \cap Occupied(j) = {}

\* two sessions of one class, one of them two periods long, on the same day
C2_Witness ==
    /\ Succeeded
    /\ \E <<i, j>> \in PlacedPairs :
           /\ sessions[i].class_id = sessions[j].class_id
           /\ duration(i) > 1
           /\ Placed(i).t.day = Placed(j).t.day

\* C3: in a successful assignment at most one session occupies a lab room at
\* any (day, period); so sessions that share their single viable lab room sit
\* at pairwise non-overlapping slots
C3_LabRoomExclusive ==
    Succeeded =>
        /\ \A <<i, j>> \in PlacedPairs :
               (/\ Placed(i).r_id = Placed(j).r_id
                /\ Placed(i).r_id \in DOMAIN rooms
                /\ rooms[Placed(i).r_id].type # "Theory")
                   => Occupied(i) \cap Occupied(j) = {}
        /\ \A <<i, j>> \in PlacedPairs :
               (/\ subjects[sessions[i].subject_id].required_room_type = "Lab"
                /\ subjects[sessions[j].subject_id].required_room_type = "Lab"
                /\ Cardinality(subjects[sessions[i].subject_id].viable_rooms) = 1
                /\ subjects[sessions[i].subject_id].viable_rooms
                       = subjects[sessions[j].subject_id].viable_rooms)
                   => Occupied(i) \cap Occupied(j) = {}

\* two lab sessions of different classes and teachers placed in the one lab room
C3_Witness ==
    /\ Succeeded
    /\ \E <<i, j>> \in PlacedPairs :
           /\ Placed(i).r_id = LB1 /\ Placed(j).r_id = LB1
           /\ sessions[i].class_id # sessions[j].class_id
           /\ sessions[i].teacher_id # sessions[j].teacher_id

\* the cells occupied by the placed sessions of a teacher, on the days D
TeacherPeriods(teacher_id, D) ==
    LET S == {i \in SessionIdx :
                 /\ IsPlaced(i)
                 /\ sessions[i].teacher_id = teacher_id
                 /\ Placed(i).t.day \in D}
    IN  Sum([i \in S |-> Cardinality(Occupied(i))], S)

\* C4: in a successful assignment every teacher's occupied periods are at most
\* max_load_week over the week and at most max_load_day on any day
C4_TeacherLoadCaps ==
    Succeeded =>
        \A teacher_id \in DOMAIN teachers :
            /\ TeacherPeriods(teacher_id, all_days) <= teachers[teacher_id].max_load_week
            /\ \A d \in all_days :
                   TeacherPeriods(teacher_id, {d}) <= teachers[teacher_id].max_load_day

\* a teacher with two sessions, one two periods long, loaded up to the weekly cap
C4_Witness ==
    /\ Succeeded
    /\ \E teacher_id \in DOMAIN teachers :
           /\ TeacherPeriods(teacher_id, all_days) = teachers[teacher_id].max_load_week
           /\ \E d \in all_days :
                  TeacherPeriods(teacher_id, {d}) = teachers[teacher_id].max_load_day
           /\ \E <<i, j>> \in PlacedPairs :
                  /\ sessions[i].teacher_id = teacher_id
                  /\ sessions[j].teacher_id = teacher_id
                  /\ duration(i) > 1

\* C5: in a successful assignment two distinct sessions with the same class,
\* subject and teacher are on different days
C5_SameCourseDifferentDays ==
    Succeeded =>
        \A <<i, j>> \in PlacedPairs :
            (/\ sessions[i].class_id = sessions[j].class_id
             /\ sessions[i].subject_id = sessions[j].subject_id
             /\ sessions[i].teacher_id = sessions[j].teacher_id)
                => Placed(i).t.day # Placed(j).t.day

\* a demand line with two periods a week, both placed
C5_Witness ==
    /\ Succeeded
    /\ \E <<i, j>> \in PlacedPairs :
           /\ sessions[i].class_id = sessions[j].class_id
           /\ sessions[i].subject_id = sessions[j].subject_id
           /\ sessions[i].teacher_id = sessions[j].teacher_id

\* C6: on success every input session id has its (timeslot, room) pair, and
\* run() reports sessions_scheduled equal to sessions_total
C6_EverySessionAssigned ==
    Succeeded =>
        /\ DOMAIN solve_result.solution = {sessions[i].session_id : i \in SessionIdx}
        /\ \A i \in SessionIdx :
               /\ Placed(i).t \in TimeslotSet
               /\ Placed(i).r_id \in possible_rooms(i)
        /\ pc = "done" =>
               /\ run_result.sessions_total = Len(sessions)
               /\ run_result.sessions_scheduled = run_result.sessions_total

\* run() has returned after a successful solve of two sessions
C6_Witness ==
    /\ Succeeded
    /\ pc = "done"
    /\ Len(sessions) = 2
    /\ run_result.status = "SUCCESS"

\* C7: when the solver ends without a solution (no satisfying assignment, or
\* no incumbent), solve returns success=false with an empty assignment, and
\* run() reports a non-success status, the session count given to the solver
\* and zero scheduled sessions
C7_NoSolutionReported ==
    (pc \in {"solved", "done"} /\ solver_status \in {"INFEASIBLE", "UNKNOWN"}) =>
        /\ solve_result.success = FALSE
        /\ DOMAIN solve_result.solution = {}
        /\ pc = "done" =>
               /\ run_result.status # "SUCCESS"
               /\ run_result.sessions_total = Len(sessions)
               /\ run_result.sessions_scheduled = 0
               /\ output_written = {}

\* run() has returned for a model that has no satisfying assignment
C7_Witness ==
    /\ pc = "done"
    /\ solver_status = "INFEASIBLE"
    /\ Len(sessions) = 2
    /\ run_result.status = "WARNING: No solution found"

----------------------------------------------------------------------------
(* What assign_home_rooms returns *)

\* the number of strings of S before x in sorted order
Rank(x, S) == Cardinality({y \in S : StrLess(y, x)})

ClassBases == {base_name(c) : c \in DOMAIN classes}

ClassGroup(b) == {c \in DOMAIN classes : base_name(c) = b}

TheoryRooms == {r \in DOMAIN rooms : rooms[r].type = "Theory"}

RoomNames == {rooms[r].name : r \in TheoryRooms}

RoomGroup(n) == {r \in TheoryRooms : rooms[r].name = n}

\* a class group and a room group at the same ordinal position differ in size
SizeMismatch ==
    \E b \in ClassBases : \E n \in RoomNames :
        /\ Rank(b, ClassBases) = Rank(n, RoomNames)
        /\ Cardinality(ClassGroup(b)) # Cardinality(RoomGroup(n))

TooManyClassGroups == Cardinality(ClassBases) > Cardinality(RoomNames)

TheMap == CHOOSE m \in home_room_map : TRUE

\* C8: a returned map is defined on every input class, is injective, and sends
\* the k-th class of the i-th class group to the k-th room of the i-th room group
C8_HomeRoomsOrdinalBijection ==
    pc = "returned" =>
        /\ Cardinality(home_room_map) = 1
        /\ DOMAIN TheMap = DOMAIN classes
        /\ \A c, d \in DOMAIN classes : c # d => TheMap[c] # TheMap[d]
        /\ \A c \in DOMAIN classes :
               /\ TheMap[c] \in TheoryRooms
               /\ Rank(base_name(c), ClassBases) = Rank(rooms[TheMap[c]].name, RoomNames)
               /\ Rank(c, ClassGroup(base_name(c)))
                      = Rank(TheMap[c], RoomGroup(rooms[TheMap[c]].name))

\* two class groups of two classes each, mapped
C8_Witness ==
    /\ pc = "returned"
    /\ Cardinality(ClassBases) = 2
    /\ \A b \in ClassBases : Cardinality(ClassGroup(b)) = 2

\* C9: with more class groups than room groups, or with a class group that
\* differs in size from the room group at its position, the call raises and
\* yields no map at all
C9_MismatchRaises ==
    (pc # "call" /\ (TooManyClassGroups \/ SizeMismatch)) =>
        /\ pc = "raised"
        /\ home_room_map = {}

\* class groups of sizes 2 and 3 against room groups of sizes 2 and 2: the
\* first group fits, the second does not
C9_Witness ==
    /\ pc = "raised"
    /\ Cardinality(ClassBases) = 2 /\ Cardinality(RoomNames) = 2
    /\ \E b \in ClassBases :
           /\ Rank(b, ClassBases) = 0 /\ Cardinality(ClassGroup(b)) = 2
    /\ \E b \in ClassBases :
           /\ Rank(b, ClassBases) = 1 /\ Cardinality(ClassGroup(b)) = 3
    /\ \A n \in RoomNames : Cardinality(RoomGroup(n)) = 2

----------------------------------------------------------------------------
(* run() when the home rooms cannot be allocated *)

\* the allocation run() asks for raises
AllocationFails ==
    LET ss == Cell(load_curriculum(curriculum).value)
        active == {c \in DOMAIN classes : \E i \in DOMAIN ss : ss[i].class_id = c}
    IN  assign_home_rooms(active, rooms).raised

\* C10: when the home-room allocation fails, run() ends with the error status
\* before any model is built or searched, and writes no timetable
C10_AllocationFailureShortCircuits ==
    (pc # "home_rooms" /\ AllocationFails) =>
        /\ pc = "done"
        /\ run_result.status = "ERROR"
        /\ solver_status = "NotRun"
        /\ solve_result.solution = <<>>
        /\ output_written = {}

\* run() has returned the error for two classes against one theory room
C10_Witness ==
    /\ pc = "done"
    /\ run_result.status = "ERROR"
    /\ Cardinality(active_classes) = 2

----------------------------------------------------------------------------
(* A teacher asked for more periods than the weekly cap *)

\* the periods a teacher's sessions need: the sum of their durations
TeacherDemand(teacher_id) ==
    LET S == {i \in SessionIdx : sessions[i].teacher_id = teacher_id}
    IN  Sum([i \in S |-> duration(i)], S)

\* C11: when the durations of the sessions of a teacher of teachers.csv add up
\* to more than that teacher's max_load_week, solve returns success=false with
\* an empty assignment, on every grid and whatever the other tables hold
C11_OverloadedTeacherInfeasible ==
    (/\ pc \in {"solved", "done"}
     /\ \E teacher_id \in DOMAIN teachers :
            TeacherDemand(teacher_id) > teachers[teacher_id].max_load_week) =>
        /\ solve_result.success = FALSE
        /\ solve_result.solution = <<>>

\* a teacher capped at 2 periods a week with sessions needing 3, which the
\* daily cap alone would let through; the search proves there is no timetable
C11_Witness ==
    /\ pc = "done"
    /\ solver_status = "INFEASIBLE"
    /\ \E teacher_id \in DOMAIN teachers :
           /\ teachers[teacher_id].max_load_week = 2
           /\ TeacherDemand(teacher_id) = 3
    /\ \A i \in SessionIdx : possible_rooms(i) # {}

----------------------------------------------------------------------------
(* What load_curriculum returns *)

\* the line has all four required cells
Complete(row) == \A c \in required_cols : row[c] # {}

CompleteLines == {k \in DOMAIN curriculum.rows : Complete(curriculum.rows[k])}

\* the sessions asked for by the complete lines before line k
SessionsBefore(k) ==
    LET S == {j \in CompleteLines : j < k}
    IN  Sum([j \in S |-> Cell(curriculum.rows[j].periods_per_week)], S)

\* the fixed room a line names: the id inside the cell, none for a file
\* without the column and for an empty or blank cell
NamedRoom(row) ==
    IF "room_id" \notin curriculum.columns \/ row.room_id = {} THEN {}
    ELSE LET cell == Cell(row.room_id)
         IN  {id \in {SubSeq(cell, a, b) : a, b \in 1..Len(cell)} :
                 /\ id # <<>>
                 /\ id[1] # " " /\ id[Len(id)] # " "
                 /\ Cardinality({k \in 1..Len(id) : id[k] # " "})
                        = Cardinality({k \in 1..Len(cell) : cell[k] # " "})}

\* C12: for every demand line that has its required fields, in input order,
\* the list holds exactly periods_per_week consecutive sessions with the
\* line's class, subject, teacher and fixed room; all session ids differ
C12_SessionsPerDemandLine ==
    pc = "loaded" /\ curriculum.exists =>
        /\ \A k \in CompleteLines :
               LET row == curriculum.rows[k]
               IN  \A m \in 1..Cell(row.periods_per_week) :
                       /\ SessionsBefore(k) + m \in DOMAIN sessions
                       /\ sessions[SessionsBefore(k) + m].class_id = Cell(row.class_id)
                       /\ sessions[SessionsBefore(k) + m].subject_id = Cell(row.subject_id)
                       /\ sessions[SessionsBefore(k) + m].teacher_id = Cell(row.teacher_id)
                       /\ sessions[SessionsBefore(k) + m].room_id = NamedRoom(row)
        /\ Len(sessions) = SessionsBefore(Len(curriculum.rows) + 1)
        /\ \A i, j \in DOMAIN sessions :
               i # j => sessions[i].session_id # sessions[j].session_id

\* two complete lines of two periods each, the second with a fixed room
C12_Witness ==
    /\ pc = "loaded"
    /\ Len(curriculum.rows) = 2 /\ CompleteLines = {1, 2}
    /\ Len(sessions) = 4
    /\ sessions[1].class_id # sessions[3].class_id
    /\ sessions[1].room_id = {} /\ sessions[3].room_id = {R1}

\* the file has its required columns and a line with an empty required cell
HasIncompleteLine ==
    /\ curriculum.exists
    /\ required_cols \subseteq curriculum.columns
    /\ CompleteLines # DOMAIN curriculum.rows

----------------------------------------------------------------------------
(* Sessions and their rooms *)

IsLabSubject(i) == subjects[sessions[i].subject_id].required_room_type = "Lab"

\* the rooms that are listed as viable for the session's subject, exist and
\* hold the class
FittingLabRooms(i) ==
    {r \in subjects[sessions[i].subject_id].viable_rooms :
        r \in DOMAIN rooms /\ rooms[r].capacity >= classes[sessions[i].class_id].size}

HasHomeRoom(i) ==
    home_room_map # {} /\ sessions[i].class_id \in DOMAIN TheMap

\* the session has no feasible room: a lab whose listed rooms are all absent
\* or too small, or a session for the home room of a class that has none
EmptyRoomDomain(i) ==
    IF IsLabSubject(i) /\ subjects[sessions[i].subject_id].viable_rooms # {}
    THEN FittingLabRooms(i) = {}
    ELSE ~HasHomeRoom(i)

C15_RoomsByKind ==
    Succeeded =>
        \A i \in SessionIdx : IsPlaced(i) =>
            IF IsLabSubject(i)
            THEN Placed(i).r_id \in FittingLabRooms(i)
            ELSE HasHomeRoom(i) /\ Placed(i).r_id = TheMap[sessions[i].class_id]

\* C18: in a successful assignment two sessions placed in the same room, home
\* room or lab room, occupy no common (day, period)
C18_RoomSessionsDisjoint ==
    Succeeded =>
        \A <<i, j>> \in PlacedPairs :
            Placed(i).r_id = Placed(j).r_id => Occupied(i) \cap Occupied(j) = {}

----------------------------------------------------------------------------
(* A search cut off by the time budget *)

\* the valuation behind the returned timetable
ReturnedValuation == [i \in SessionIdx |-> Key(Placed(i).t, Placed(i).r_id)]

----------------------------------------------------------------------------
(* Teacher unavailability *)

\* C17: in a successful assignment no session starts at a (day, period) that
\* its teacher declared unavailable
C17_NoStartWhenUnavailable ==
    Succeeded =>
        \A i \in SessionIdx : IsPlaced(i) =>
            (sessions[i].teacher_id \in DOMAIN unavailability
                => Placed(i).t \notin unavailability[sessions[i].teacher_id])

\* a session of a teacher who declared a slot unavailable, placed on the day
\* of that slot
C17_Witness ==
    /\ Succeeded
    /\ \E i \in SessionIdx :
           /\ IsPlaced(i)
           /\ sessions[i].teacher_id \in DOMAIN unavailability
           /\ \E u \in unavailability[sessions[i].teacher_id] :
                  Placed(i).t.day = u.day /\ Placed(i).t.period = u.period + 1

----------------------------------------------------------------------------
(* What TimetableSolver.solve returns *)

SolveReturned == pc \in {"bt_done", "done"}

SessionIds == {sessions[i].session_id : i \in SessionIdx}

\* C19: the backtracking solve returns success=true only with every input
\* session placed: the returned map has exactly one entry per session, and
\* run() then counts as many scheduled sessions as there are sessions
C19_SuccessMeansAllPlaced ==
    (SolveReturned /\ solver.result.success) =>
        /\ DOMAIN solver.result.assignment = SessionIds
        /\ Cardinality(DOMAIN solver.result.assignment) = Len(sessions)
        /\ solver.unassigned_ids = <<>>
        /\ pc = "done" => run_result.sessions_scheduled = run_result.sessions_total

\* run() has returned after a successful solve of three sessions, one of
\* them placed after the first slot
C19_Witness ==
    /\ pc = "done"
    /\ solver.result.success
    /\ Len(sessions) = 3
    /\ run_result.status = "SUCCESS"
    /\ \E i \in SessionIdx :
           solver.result.assignment[sessions[i].session_id].t # Timeslot(1, 1)

\* C20: when the budget expires before every session is placed, solve returns
\* success=false and the sessions placed at the moment of expiry are still in
\* the returned map, where they were
C20_PartialAssignmentReturned ==
    (/\ SolveReturned
     /\ solver.time_exceeded
     /\ DOMAIN solver.at_expiry # SessionIds) =>
        /\ solver.result.success = FALSE
        /\ \A sid \in DOMAIN solver.at_expiry :
               /\ sid \in DOMAIN solver.result.assignment
               /\ solver.result.assignment[sid] = solver.at_expiry[sid]

----------------------------------------------------------------------------
(* The bookkeeping of the backtracking solver *)

\* the entries the placed sessions put into the three indexes
ImpliedBusy(a, field) ==
    {<<IF field = "room" THEN a[sid].r_id
       ELSE IF field = "teacher" THEN SessionOf(sid).teacher_id
       ELSE SessionOf(sid).class_id, a[sid].t>> : sid \in DOMAIN a}

IndexesFollowAssignment ==
    /\ solver.teacher_busy = ImpliedBusy(solver.assignment, "teacher")
    /\ solver.class_busy = ImpliedBusy(solver.assignment, "class")
    /\ solver.room_busy = ImpliedBusy(solver.assignment, "room")

\* a call of backtrack() takes back the value it placed: the recursive call
\* has returned False and the loop goes on
UndoStep == pc = "bt_return" /\ pc' = "bt_loop"

\* C21: when a branch has failed, the undo leaves the assignment and the
\* teacher, class and room indexes exactly as they were before the value of
\* that branch was placed; and in every state the three indexes hold exactly
\* the (teacher, slot), (class, slot) and (room, slot) entries of the sessions
\* the assignment holds.
C21_UndoRestoresAndIndexesMatch ==
    /\ [][UndoStep => {Snapshot(solver')} = TopFrame.before]_vars
    /\ [](IndexesFollowAssignment)

\* a nested call has placed a value, seen the branch fail without the clock
\* running out, and is back in its loop with the placements of the calls
\* above it still in the assignment
C21_Witness ==
    /\ pc = "bt_loop"
    /\ ~solver.time_exceeded
    /\ Len(solver.frames) >= 2
    /\ TopFrame.before # {}
    /\ Cardinality(DOMAIN solver.assignment) = Len(solver.frames) - 1
    /\ solver.room_busy # {}

----------------------------------------------------------------------------
(* The selection heuristic of the backtracking solver *)

\* backtrack() is about to select a session
SelectionStep == pc = "bt_call" /\ ~solver.time_exceeded /\ solver.unassigned_ids # <<>>

\* the place of a session in the input session list
InputPosition(sid) == CHOOSE i \in SessionIdx : sessions[i].session_id = sid

\* the (timeslot, room) values of the static domain nothing placed rules out
ConsistentValues(sid) ==
    {v \in Range(initial_domains(sid)) : _is_consistent(solver, SessionOf(sid), v.t, v.r)}

FewestValues(sid) ==
    \A o \in Range(solver.unassigned_ids) :
        Cardinality(ConsistentValues(sid)) <= Cardinality(ConsistentValues(o))

\* C22: at every selection step the session chosen is an unassigned session
\* with the fewest currently consistent domain values, and among the sessions
\* with that fewest number it is the earliest of the input session order.
C22_SelectsFewestThenInputOrder ==
    SelectionStep =>
        LET sid == _select_unassigned_session(solver)
        IN  /\ sid \in Range(solver.unassigned_ids)
            /\ FewestValues(sid)
            /\ \A o \in Range(solver.unassigned_ids) :
                   FewestValues(o) => InputPosition(sid) <= InputPosition(o)

----------------------------------------------------------------------------
(* What the backtracking solver finds *)

\* the static domain of a session: the slots its teacher is available at,
\* with its fixed room or any room, the room holding the class
StaticDomain(i) ==
    LET s == sessions[i]
    IN  {[t |-> t, r_id |-> r] :
            t \in Range(timeslots) \ UnavailableOf(s.teacher_id),
            r \in {x \in (IF s.room_id = {} THEN Range(solver.room_ids) ELSE s.room_id) :
                      classes[s.class_id].size <= rooms[x].capacity}}

\* two sessions at one timeslot with the same teacher, class or room
Clash(i, j, a) ==
    /\ a[i].t = a[j].t
    /\ \/ sessions[i].teacher_id = sessions[j].teacher_id
       \/ sessions[i].class_id = sessions[j].class_id
       \/ a[i].r_id = a[j].r_id

CompleteAssignmentExists ==
    \E a \in [SessionIdx -> UNION {StaticDomain(i) : i \in SessionIdx}] :
        /\ \A i \in SessionIdx : a[i] \in StaticDomain(i)
        /\ \A i, j \in SessionIdx : i < j => ~Clash(i, j, a)

\* C23: when the time budget does not expire, solve() returns success=true
\* if and only if some complete assignment gives every session a (timeslot,
\* room) of its static domain with no two sessions sharing a teacher, a class
\* or a room at one timeslot.
C23_SuccessIffAssignmentExists ==
    (SolveReturned /\ ~solver.time_exceeded) =>
        (solver.result.success <=> CompleteAssignmentExists)

\* solve() has succeeded without expiry on three sessions of class 11A, the
\* first with T1 (free at periods 1 and 2), the others with T2 (free at
\* periods 1 and 3): the first session was placed at period 1, the search
\* failed below it, and it ends at period 2
C23_Witness ==
    /\ SolveReturned /\ ~solver.time_exceeded /\ solver.result.success
    /\ Len(sessions) = 3
    /\ \A i \in SessionIdx : sessions[i].class_id = c11A
    /\ sessions[1].teacher_id = "T1"
    /\ sessions[2].teacher_id = "T2" /\ sessions[3].teacher_id = "T2"
    /\ unavailability # <<>>
    /\ solver.result.assignment[<<"S", 1>>].t = Timeslot(1, 2)

\* the sessions an assignment of the search holds, as indexes
PlacedIn(a) == {i \in SessionIdx : sessions[i].session_id \in DOMAIN a}

ConflictFree(a) ==
    LET at == [i \in PlacedIn(a) |-> a[sessions[i].session_id]]
    IN  /\ \A i, j \in PlacedIn(a) : i < j => ~Clash(i, j, at)
        /\ \A i \in PlacedIn(a) :
               /\ at[i].t \notin UnavailableOf(sessions[i].teacher_id)
               /\ rooms[at[i].r_id].capacity >= classes[sessions[i].class_id].size
               /\ sessions[i].room_id # {} => at[i].r_id = Cell(sessions[i].room_id)

\* C24: in every state of the backtracking search, and in the assignment it
\* returns, no two placed sessions share a teacher, a class or a room at one
\* timeslot, and every placed session is at a slot where its teacher is
\* available, in a room at least as large as its class, and in its fixed room
\* when it has one.
C24_PlacementsConflictFree ==
    ConflictFree(solver.assignment) /\ ConflictFree(solver.result.assignment)

\* two sessions are placed at one timeslot, one of them in its fixed room,
\* with teachers who are unavailable at other slots
C24_Witness ==
    /\ unavailability # <<>>
    /\ \E i, j \in PlacedIn(solver.assignment) :
           /\ i # j
           /\ solver.assignment[sessions[i].session_id].t =
                  solver.assignment[sessions[j].session_id].t
           /\ sessions[i].room_id # {}

----------------------------------------------------------------------------
(* The scheduling rules in a returned timetable *)

\* the periods of a day of the grid
PeriodsOf(day) == {t.period : t \in {x \in TimeslotSet : x.day = day}}

\* C25: in a successful assignment every session of duration d > 1 starting
\* at period p of day D occupies periods p..p+d-1 that all exist on day D: it
\* does not run past the last period of D nor into another day.
C25_MultiPeriodStaysInDay ==
    Succeeded =>
        \A i \in SessionIdx : (IsPlaced(i) /\ duration(i) > 1) =>
            /\ \A c \in Occupied(i) : c[1] = Placed(i).t.day /\ c[2] \in PeriodsOf(c[1])
            /\ Placed(i).t.period + duration(i) - 1 <= max_period_for_day(Placed(i).t.day)

\* a three-period session placed so that it ends in the last period of its
\* day, and a two-period session placed in the same timetable
C25_Witness ==
    /\ Succeeded
    /\ \E i, j \in SessionIdx :
           /\ IsPlaced(i) /\ duration(i) = 3
           /\ Placed(i).t.period + 2 = max_period_for_day(Placed(i).t.day)
           /\ IsPlaced(j) /\ duration(j) = 2

IsTheorySubject(i) ==
    /\ subjects[sessions[i].subject_id].required_room_type # "Lab"
    /\ ~subjects[sessions[i].subject_id].is_optional

\* C26: in a successful assignment no session starts at period 6, every
\* session of a Lab subject starts at period 1, 4 or 7, and no session of a
\* theory subject (neither Lab nor optional) starts at period 7, 8 or 9.
C26_StartPeriodRules ==
    Succeeded =>
        \A i \in SessionIdx : IsPlaced(i) =>
            /\ Placed(i).t.period # 6
            /\ IsLabSubject(i) => Placed(i).t.period \in {1, 4, 7}
            /\ IsTheorySubject(i) => Placed(i).t.period \notin {7, 8, 9}

\* a Lab session starting at period 7 and a theory session in one timetable,
\* on a grid that has periods 6, 7, 8 and 9
C26_Witness ==
    /\ Succeeded
    /\ {6, 8, 9} \subseteq {t.period : t \in TimeslotSet}
    /\ \E i, j \in SessionIdx :
           /\ IsPlaced(i) /\ IsLabSubject(i) /\ Placed(i).t.period = 7
           /\ IsPlaced(j) /\ IsTheorySubject(j)

\* C27: in a successful assignment no session occupies period 6 of any day,
\* the sessions of several periods that started earlier in the day included.
C27_NothingInPeriodSix ==
    Succeeded =>
        \A i \in SessionIdx : IsPlaced(i) => \A c \in Occupied(i) : c[2] # 6

\* C28: in a successful assignment, when a session of an optional class
\* (12A1, 12A2, 12B1, 12B2) starts at a timeslot, no session of a main class
\* (12A, 12B, 12C) with a subject other than HUM101 and HUM103 starts at that
\* timeslot.
C28_OptionalBlocksMainCourses ==
    Succeeded =>
        \A <<i, j>> \in PlacedPairs :
            (/\ sessions[i].class_id \in optional_classes
             /\ sessions[j].class_id \in main_classes
             /\ sessions[j].subject_id \notin optional_course_subjects)
                => Placed(i).t # Placed(j).t

\* a session of the optional class 12A1 and a session of the main class 12A
\* with a subject that is not exempt, placed on one day
C28_Witness ==
    /\ Succeeded
    /\ \E <<i, j>> \in PlacedPairs :
           /\ sessions[i].class_id = c12A1
           /\ sessions[j].class_id = c12A
           /\ sessions[j].subject_id \notin optional_course_subjects
           /\ Placed(i).t.day = Placed(j).t.day

\* C29: in a successful assignment no period a session occupies, its start
\* period or one of the duration-1 periods after it, is a (day, period) that
\* the teacher of the session declared unavailable.
C29_NoOccupiedPeriodUnavailable ==
    Succeeded =>
        \A i \in SessionIdx : IsPlaced(i) =>
            \A c \in Occupied(i) :
                Timeslot(c[1], c[2]) \notin UnavailableOf(sessions[i].teacher_id)

----------------------------------------------------------------------------
(* The timetable on view in the Schedules page *)

\* C30: a timetable file viewed in the Schedules page, after the Generator
\* has rewritten it and after Refresh too, is shown as the rendering of what
\* the file holds now, never as a rendering kept from before.
C30_ViewShowsCurrentFile ==
    ui.menu = "Schedules" =>
        \A w \in ui.view : w.html = get_asc_styled_html(ui.output, w.file)

====
